---- MODULE Spec2Model ----
(***************************************************************************)
(* Model of video_compiler.py: one clip per calendar day, extracted with   *)
(* an external tool, validated, and concatenated in chronological order.   *)
(* Durations are in tenths of a second.  A date is the integer yyyymmdd,   *)
(* whose order is the order of the datetime objects the code compares.     *)
(***************************************************************************)
EXTENDS Integers, Sequences, FiniteSets, TLC

\* ------------------------------------------------------------------ bounds
MaxFiles == 3

\* ------------------------------------------------------- program constants
clip_duration == 14
FallbackDuration == 100
MinDuration == 5

\* ------------------------------------------------------------- input sets
\* A file is modelled by the parts of its name: the digits of a leading
\* "dddd-dd-dd_" prefix (<<>> when the name has no such prefix), the rest of
\* the stem, and the extension as written; and by the duration its content
\* really has.
File(date, id, ext, secs) ==
    [date |-> date, id |-> id, ext |-> ext, secs |-> secs]

Corpus ==
    { File(<<2024, 1, 1>>, "a-main", "mp4", 30),
      File(<<2024, 1, 1>>, "b-main", "mp4", 8),
      File(<<2024, 1, 3>>, "c-main", "mp4", 0),
      File(<<2023, 12, 31>>, "d-main", "mp4", 8),
      File(<<2024, 2, 30>>, "e-main", "mp4", 30),
      File(<<2024, 1, 2>>, "f-main", "MP4", 30),
      File(<<>>, "notes", "txt", 0) }

\* What ffprobe gives the validator: exit status, whether stdout is JSON,
\* the codec types of the listed streams, format.duration when present.
Probe(exit, json, v, a, hd, d) ==
    [exit |-> exit, json |-> json, has_video |-> v, has_audio |-> a,
     has_duration |-> hd, duration |-> d]

ProbeResults ==
    { Probe(1, FALSE, FALSE, FALSE, FALSE, 0),
      Probe(0, FALSE, FALSE, FALSE, FALSE, 0),
      Probe(0, TRUE, FALSE, TRUE, TRUE, 14),
      Probe(0, TRUE, TRUE, FALSE, TRUE, 14),
      Probe(0, TRUE, TRUE, TRUE, FALSE, 0),
      Probe(0, TRUE, TRUE, TRUE, TRUE, 4),
      Probe(0, TRUE, TRUE, TRUE, TRUE, 5),
      Probe(0, TRUE, TRUE, TRUE, TRUE, 14) }

\* ---------------------------------------------------------- pure functions
Min(a, b) == IF a <= b THEN a ELSE b

IsLeap(y) == (y % 4 = 0 /\ y % 100 # 0) \/ y % 400 = 0

DaysInMonth(y, m) ==
    IF m = 2 THEN (IF IsLeap(y) THEN 29 ELSE 28)
    ELSE IF m \in {4, 6, 9, 11} THEN 30 ELSE 31

\* datetime.strptime(s, '%Y-%m-%d'): a date, or ValueError when the digits
\* are not a calendar date.
strptime(t) ==
    IF /\ t[1] >= 1
       /\ t[2] \in 1..12
       /\ t[3] >= 1
       /\ t[3] <= DaysInMonth(t[1], t[2])
    THEN [kind |-> "date", val |-> t[1] * 10000 + t[2] * 100 + t[3]]
    ELSE [kind |-> "ValueError", val |-> 0]

\* re.match(r'(\d{4}-\d{2}-\d{2})_.*\.mp4$', filename)
re_match(name) == name.date # <<>> /\ name.ext = "mp4"

parse_date_from_filename(name) ==
    IF re_match(name) THEN strptime(name.date)
    ELSE [kind |-> "None", val |-> 0]

\* f.suffix.lower() == '.mp4'
Lower(ext) == IF ext = "MP4" THEN "mp4" ELSE ext

get_video_files(dir) == { f \in dir : Lower(f.ext) = "mp4" }

Range(s) == { s[k] : k \in 1..Len(s) }

Orderings(S) ==
    { s \in [1..Cardinality(S) -> S] : Range(s) = S }

RECURSIVE KeysInOrder(_)
\* the keys of the defaultdict in insertion order
KeysInOrder(files) ==
    IF files = <<>> THEN <<>>
    ELSE LET front == KeysInOrder(SubSeq(files, 1, Len(files) - 1))
             p == parse_date_from_filename(files[Len(files)])
         IN IF p.kind = "date" /\ p.val \notin Range(front)
            THEN Append(front, p.val) ELSE front

InBucket(f, dt) ==
    LET p == parse_date_from_filename(f) IN p.kind = "date" /\ p.val = dt

group_by_date(files) ==
    [dt \in Range(KeysInOrder(files)) |->
        SelectSeq(files, LAMBDA f : InBucket(f, dt))]

GroupRaises(files) ==
    \E k \in 1..Len(files) :
        parse_date_from_filename(files[k]).kind = "ValueError"

SetMin(S) == CHOOSE x \in S : \A y \in S : x <= y

RECURSIVE SortSet(_)
SortSet(S) ==
    IF S = {} THEN <<>>
    ELSE <<SetMin(S)>> \o SortSet(S \ {SetMin(S)})

\* the dates left in the order the scanner discovered them
sorted_discovery(keys) == keys

\* sorted(selected_videos.keys())
sorted(keys) == SortSet(Range(keys))

\* get_video_duration: the probed duration, or the fallback when the probe
\* fails
get_video_duration(probe_ok, real) ==
    IF probe_ok THEN real ELSE FallbackDuration

\* the target duration, not clamped
actual_clip_duration_unclamped(probe_ok, real) == clip_duration

\* min(clip_duration, duration), line 260
actual_clip_duration(probe_ok, real) ==
    Min(clip_duration, get_video_duration(probe_ok, real))

\* the exit status of the tool ignored
extract_clip_always(exit) == TRUE

\* extract_clip returns True iff the tool exits with status 0
extract_clip(exit) == exit = 0

\* the check of the audio stream left out
validate_clip_noaudio(p) ==
    IF p.exit # 0 THEN "raise"
    ELSE IF ~p.json THEN "False"
    ELSE IF ~p.has_video THEN "False"
    ELSE IF ~p.has_duration \/ p.duration < MinDuration THEN "False"
    ELSE "True"

\* validate_clip: "True", "False", or "raise" when the exception escapes.
\* The except clause names json.JSONDecodeError, and json is a local bound by
\* the import that follows subprocess.run: when run raises
\* CalledProcessError the clause itself raises UnboundLocalError.
validate_clip(p) ==
    IF p.exit # 0 THEN "raise"
    ELSE IF ~p.json THEN "False"
    ELSE IF ~p.has_video THEN "False"
    ELSE IF ~p.has_audio THEN "False"
    ELSE IF ~p.has_duration \/ p.duration < MinDuration THEN "False"
    ELSE "True"

\* the early return left out
NoClips_never(paths) == FALSE

\* `if not clip_paths`
NoClips(paths) == paths = <<>>

\* a directory that nobody removes
TemporaryDirectoryExit_leak(t) == t

\* leaving the `with tempfile.TemporaryDirectory()` block, by return, by
\* falling off the end or by an exception: the directory and all in it go
TemporaryDirectoryExit(t) == [state |-> "deleted", files |-> {}]

\* ------------------------------------------------------------------ state
VARIABLES
    pc,             \* position of main
    directory,      \* the names in the videos directory
    output0,        \* the output path before the run
    output,         \* the output path now
    video_files,    \* get_video_files result, in discovery order
    grouped,        \* date -> files of that date
    dict_keys,      \* insertion order of the keys of grouped / selected
    selected,       \* date -> chosen file
    sorted_dates,
    i,              \* 1-based position in sorted_dates
    dur,            \* duration probe of the current date and the request
    temp,           \* the TemporaryDirectory and the clip files in it
    clip_paths,
    attempts,       \* date -> number of extraction tool runs
    extract_exit,   \* date -> exit status of the extraction tool
    validation,     \* the last validate_clip: date, probe, outcome
    probe_good,     \* dates whose clip ffprobe showed whole
    accepted,       \* date of an appended clip -> what ffprobe showed
    manifest,       \* the concat list file: none, exists, deleted
    concat_calls,   \* calls of concatenate_videos
    concat_input,   \* the clip_paths handed to concatenate_videos
    cv_exit,        \* how concatenate_videos was left
    result          \* how the run ended

vars == <<pc, directory, output0, output, video_files, grouped, dict_keys,
          selected, sorted_dates, i, dur, temp, clip_paths, attempts,
          extract_exit, validation, probe_good, accepted, manifest,
          concat_calls, concat_input, cv_exit, result>>

NoValidation ==
    [date |-> 0, probe |-> Probe(0, FALSE, FALSE, FALSE, FALSE, 0),
     outcome |-> "none"]

\* the probe shows a video stream, an audio stream and a duration of at
\* least the minimum
Whole(p) ==
    /\ p.exit = 0 /\ p.json
    /\ p.has_video /\ p.has_audio
    /\ p.has_duration /\ p.duration >= MinDuration

NoDur == [real |-> 0, probe_ok |-> FALSE, requested |-> 0]

Init ==
    /\ pc = "preflight"
    /\ directory \in { S \in SUBSET Corpus : Cardinality(S) <= MaxFiles }
    /\ output0 \in {"absent", "previous"}
    /\ output = output0
    /\ video_files = <<>>
    /\ grouped = <<>>
    /\ dict_keys = <<>>
    /\ selected = <<>>
    /\ sorted_dates = <<>>
    /\ i = 0
    /\ dur = NoDur
    /\ temp = [state |-> "none", files |-> {}]
    /\ clip_paths = <<>>
    /\ attempts = <<>>
    /\ extract_exit = <<>>
    /\ validation = NoValidation
    /\ probe_good = {}
    /\ accepted = <<>>
    /\ manifest = "none"
    /\ concat_calls = 0
    /\ concat_input = <<>>
    /\ cv_exit = "none"
    /\ result = "running"

\* ---------------------------------------------------------------- actions
\* main, lines 214-221: both tools must answer -version
Preflight ==
    /\ pc = "preflight"
    /\ \E found \in BOOLEAN :
          IF found
          THEN pc' = "scan" /\ result' = result
          ELSE pc' = "done" /\ result' = "tools_missing"
    /\ UNCHANGED <<directory, output0, output, video_files, grouped,
                   dict_keys, selected, sorted_dates, i, dur, temp,
                   clip_paths, attempts, extract_exit, validation,
                   probe_good, accepted,
                   manifest, concat_calls, concat_input, cv_exit>>

\* main, lines 223-230: iterdir gives the files in any order
Scan ==
    /\ pc = "scan"
    /\ \E order \in Orderings(get_video_files(directory)) :
          /\ video_files' = order
          /\ IF order = <<>>
             THEN pc' = "done" /\ result' = "no_video_files"
             ELSE pc' = "group" /\ result' = result
    /\ UNCHANGED <<directory, output0, output, grouped, dict_keys, selected,
                   sorted_dates, i, dur, temp, clip_paths, attempts,
                   extract_exit, validation, probe_good, accepted, manifest,
                   concat_calls, concat_input, cv_exit>>

\* main, lines 232-235: a ValueError of the parser is caught nowhere
Group ==
    /\ pc = "group"
    /\ IF GroupRaises(video_files)
       THEN /\ pc' = "done"
            /\ result' = "exception"
            /\ UNCHANGED <<grouped, dict_keys>>
       ELSE /\ pc' = "select"
            /\ grouped' = group_by_date(video_files)
            /\ dict_keys' = KeysInOrder(video_files)
            /\ result' = result
    /\ UNCHANGED <<directory, output0, output, video_files, selected,
                   sorted_dates, i, dur, temp, clip_paths, attempts,
                   extract_exit, validation, probe_good, accepted, manifest,
                   concat_calls, concat_input, cv_exit>>

\* select_one_per_day: random.choice in every bucket
Select ==
    /\ pc = "select"
    /\ \E choice \in [DOMAIN grouped -> Range(video_files)] :
          /\ \A dt \in DOMAIN grouped : choice[dt] \in Range(grouped[dt])
          /\ selected' = choice
    /\ pc' = "sort"
    /\ UNCHANGED <<directory, output0, output, video_files, grouped,
                   dict_keys, sorted_dates, i, dur, temp, clip_paths,
                   attempts, extract_exit, validation, probe_good, accepted,
                   manifest, concat_calls, concat_input, cv_exit, result>>

\* main, lines 241-250: sort the dates, open the temporary directory
Sort ==
    /\ pc = "sort"
    /\ sorted_dates' = sorted(dict_keys)
    /\ temp' = [state |-> "exists", files |-> {}]
    /\ clip_paths' = <<>>
    /\ i' = 1
    /\ pc' = IF sorted_dates' = <<>> THEN "check" ELSE "probe"
    /\ UNCHANGED <<directory, output0, output, video_files, grouped,
                   dict_keys, selected, dur, attempts, extract_exit,
                   validation, probe_good, accepted, manifest, concat_calls,
                   concat_input, cv_exit, result>>

\* the for loop goes to the next date, or ends
NextDate ==
    /\ i' = i + 1
    /\ pc' = IF i < Len(sorted_dates) THEN "probe" ELSE "check"

\* an exception leaves main through the with block
Escape ==
    /\ pc' = "done"
    /\ result' = "exception"
    /\ temp' = TemporaryDirectoryExit(temp)

Clip == [i |-> i - 1, date |-> sorted_dates[i]]

\* main, lines 258-260
ProbeDuration ==
    /\ pc = "probe"
    /\ \E ok \in BOOLEAN :
          LET real == selected[sorted_dates[i]].secs IN
          dur' = [real |-> real, probe_ok |-> ok,
                  requested |-> actual_clip_duration(ok, real)]
    /\ pc' = "extract"
    /\ UNCHANGED <<directory, output0, output, video_files, grouped,
                   dict_keys, selected, sorted_dates, i, temp, clip_paths,
                   attempts, extract_exit, validation, probe_good, accepted,
                   manifest,
                   concat_calls, concat_input, cv_exit, result>>

\* main, lines 263 and 270-271, with extract_clip; a failed run of the tool
\* may or may not leave a file behind
Extract ==
    /\ pc = "extract"
    /\ LET d == sorted_dates[i] IN
       \E exit \in {0, 1}, left \in BOOLEAN :
          /\ exit = 0 => left
          /\ attempts' = (d :> (IF d \in DOMAIN attempts
                                 THEN attempts[d] + 1 ELSE 1)) @@ attempts
          /\ extract_exit' = (d :> exit) @@ extract_exit
          /\ temp' = [temp EXCEPT !.files =
                         IF left THEN @ \cup {Clip} ELSE @]
          /\ IF extract_clip(exit)
             THEN pc' = "validate" /\ i' = i
             ELSE NextDate
    /\ UNCHANGED <<directory, output0, output, video_files, grouped,
                   dict_keys, selected, sorted_dates, dur, clip_paths,
                   validation, probe_good, accepted, manifest, concat_calls,
                   concat_input, cv_exit, result>>

\* main, lines 265-269, with validate_clip
Validate ==
    /\ pc = "validate"
    /\ LET d == sorted_dates[i] IN
       \E p \in ProbeResults :
          LET r == validate_clip(p) IN
          /\ validation' = [date |-> d, probe |-> p, outcome |-> r]
          /\ probe_good' = IF Whole(p) THEN probe_good \cup {d}
                           ELSE probe_good
          /\ CASE r = "True" ->
                    /\ clip_paths' = Append(clip_paths, Clip)
                    /\ accepted' = (d :> p) @@ accepted
                    /\ NextDate
                    /\ UNCHANGED <<temp, result>>
               [] r = "False" ->
                    /\ NextDate
                    /\ UNCHANGED <<clip_paths, accepted, temp, result>>
               [] r = "raise" ->
                    /\ Escape
                    /\ UNCHANGED <<clip_paths, accepted, i>>
    /\ UNCHANGED <<directory, output0, output, video_files, grouped,
                   dict_keys, selected, sorted_dates, dur, attempts,
                   extract_exit, manifest, concat_calls, concat_input,
                   cv_exit>>

\* main, lines 273-278
CheckClips ==
    /\ pc = "check"
    /\ IF NoClips(clip_paths)
       THEN /\ pc' = "done"
            /\ result' = "no_clips"
            /\ temp' = TemporaryDirectoryExit(temp)
       ELSE /\ pc' = "manifest"
            /\ UNCHANGED <<temp, result>>
    /\ UNCHANGED <<directory, output0, output, video_files, grouped,
                   dict_keys, selected, sorted_dates, i, dur, clip_paths,
                   attempts, extract_exit, validation, probe_good, accepted,
                   manifest,
                   concat_calls, concat_input, cv_exit>>

\* concatenate_videos, lines 160-162: the list file is created, then written
\* by create_concat_file, outside the try statement
CreateManifest ==
    /\ pc = "manifest"
    /\ concat_calls' = concat_calls + 1
    /\ concat_input' = clip_paths
    /\ manifest' = "exists"
    /\ \E written \in BOOLEAN :
          IF written
          THEN /\ pc' = "concat"
               /\ UNCHANGED <<temp, result, cv_exit>>
          ELSE /\ cv_exit' = "write_error"
               /\ Escape
    /\ UNCHANGED <<directory, output0, output, video_files, grouped,
                   dict_keys, selected, sorted_dates, i, dur, clip_paths,
                   attempts, extract_exit, validation, probe_good, accepted>>

\* what the tool does to the output path, which it is given with -y
OutputAfter(outcome, out) ==
    CASE outcome = "success" -> {"new"}
      [] outcome = "tool_failure" -> {out, "partial"}
      [] outcome = "launch_error" -> {out}

\* concatenate_videos, lines 164-204, and main, lines 281-287
RunConcat ==
    /\ pc = "concat"
    /\ \E outcome \in {"success", "tool_failure", "launch_error"} :
          /\ output' \in OutputAfter(outcome, output)
          /\ cv_exit' = outcome
          /\ result' = CASE outcome = "success" -> "completed"
                          [] outcome = "tool_failure" -> "concat_failed"
                          [] outcome = "launch_error" -> "exception"
    /\ manifest' = "deleted"
    /\ temp' = TemporaryDirectoryExit(temp)
    /\ pc' = "done"
    /\ UNCHANGED <<directory, output0, video_files, grouped, dict_keys,
                   selected, sorted_dates, i, dur, clip_paths, attempts,
                   extract_exit, validation, probe_good, accepted, concat_calls,
                   concat_input>>

Next ==
    \/ Preflight
    \/ Scan
    \/ Group
    \/ Select
    \/ Sort
    \/ ProbeDuration
    \/ Extract
    \/ Validate
    \/ CheckClips
    \/ CreateManifest
    \/ RunConcat

Spec == Init /\ [][Next]_vars

\* ----------------------------------------------------------------- claims
ClipDates(paths) == { paths[k].date : k \in 1..Len(paths) }

StrictlyIncreasing(paths) ==
    \A j, k \in 1..Len(paths) : j < k => paths[j].date < paths[k].date

\* the for loop of main has gone through every selected date
LoopOver == i > Len(sorted_dates)

FailureReports ==
    {"tools_missing", "no_video_files", "no_clips", "concat_failed",
     "exception"}

\* C1: the clips collected for, and handed to, the concatenator are strictly
\* increasing by date (ascending, one clip per date at most), whatever the
\* discovery order and whichever extractions and validations fail.
C1_ClipsStrictlyIncreasing ==
    /\ StrictlyIncreasing(clip_paths)
    /\ StrictlyIncreasing(concat_input)

\* C1 witness: the scanner found the dates out of order, and two clips or
\* more went to the concatenator.
C1_Witness ==
    /\ concat_calls = 1
    /\ Len(concat_input) >= 2
    /\ dict_keys # sorted_dates

\* C2: every clip in the concatenation input was shown by the probe to have
\* a video stream, an audio stream and a duration of at least the minimum.
C2_OnlyValidClips ==
    /\ \A d \in ClipDates(clip_paths) :
          d \in DOMAIN accepted /\ Whole(accepted[d])
    /\ \A d \in ClipDates(concat_input) :
          d \in DOMAIN accepted /\ Whole(accepted[d])

\* C2 witness: a clip with both streams and a duration under the minimum was
\* validated and is not among the clips handed to the concatenator.
C2_Witness ==
    /\ concat_calls = 1
    /\ validation.outcome = "False"
    /\ validation.probe.has_video /\ validation.probe.has_audio
    /\ validation.probe.has_duration
    /\ validation.probe.duration < MinDuration
    /\ validation.date \notin ClipDates(concat_input)

\* C3 (as claimed): when the probe of the validator exits non-zero or gives
\* malformed output, validate_clip returns False and nothing is raised.
C3_ProbeFailureIsInvalid ==
    (/\ validation.outcome # "none"
     /\ (validation.probe.exit # 0 \/ ~validation.probe.json))
        => validation.outcome = "False"

C5_NoClipsNoOutput ==
    (pc = "done" /\ clip_paths = <<>>) =>
        /\ concat_calls = 0
        /\ manifest = "none"
        /\ output = output0
        /\ result \in FailureReports

\* C5 witness: files were scanned, none had a parsable date, and the run
\* ended on the report that no clip was extracted.
C5_Witness ==
    /\ pc = "done"
    /\ result = "no_clips"
    /\ video_files # <<>>
    /\ sorted_dates = <<>>

\* C6 (as claimed): however concatenate_videos is left, the manifest file no
\* longer exists.
C6_ManifestNeverLeaks ==
    (cv_exit # "none") => manifest # "exists"

\* C7 (as claimed): when the run ends because concatenation failed, the
\* output path is as it was before the run.
C7_FailedConcatLeavesOutput ==
    (pc = "done" /\ result = "concat_failed") => output = output0

\* C8 (as claimed): the parser gives a date or no date for every scanned
\* name, never an error, and a file is in the bucket of a date exactly when
\* the parser gave that date for its name.
C8_ParserTotal ==
    /\ \A f \in Range(video_files) :
          parse_date_from_filename(f).kind \in {"date", "None"}
    /\ \A dt \in DOMAIN grouped : \A f \in Range(video_files) :
          f \in Range(grouped[dt]) <=>
              parse_date_from_filename(f) = [kind |-> "date", val |-> dt]

\* C9: when the run has ended after the temporary directory was created,
\* the directory and every clip file in it are gone.
C9_WorkspaceDeleted ==
    pc = "done" => (temp.state \in {"none", "deleted"} /\ temp.files = {})

\* C9 witness: a clip had been extracted and collected, an exception escaped
\* from a later per-date step, and the directory is gone.
C9_Witness ==
    /\ pc = "done"
    /\ result = "exception"
    /\ validation.outcome = "raise"
    /\ clip_paths # <<>>
    /\ temp.state = "deleted"

\* C10 (as claimed): the duration requested from the extractor never
\* exceeds the target, never exceeds the duration the source really has
\* (also when the duration probe fails), and is greater than 0.
C10_RequestClamped ==
    pc = "extract" =>
        /\ dur.requested <= clip_duration
        /\ dur.requested <= dur.real
        /\ dur.requested > 0

\* C10 (amended): the requested duration never exceeds the target; when the
\* duration probe succeeds it does not exceed the duration of the source and
\* is greater than 0 if that duration is; when the probe fails it is the
\* target, whatever the source holds.
C10_RequestClampedWhenProbed ==
    pc = "extract" =>
        /\ dur.requested <= clip_duration
        /\ dur.probe_ok =>
              /\ dur.requested <= dur.real
              /\ dur.real > 0 => dur.requested > 0
        /\ ~dur.probe_ok => dur.requested = clip_duration

\* C10 witness: the duration probe succeeded on a source shorter than the
\* target and the request was cut down to it.
C10_Witness ==
    /\ pc = "extract"
    /\ dur.probe_ok
    /\ dur.real > 0
    /\ dur.real < clip_duration
    /\ dur.requested = dur.real

====
